---- MODULE Spec2Model ----
(***************************************************************************)
(* The OCSP request and response builders of cryptography.x509.ocsp.       *)
(*                                                                         *)
(* Python objects live in heaps: reqs and resps hold the builder objects   *)
(* in the order they were constructed, lists holds the Python list objects *)
(* the builders' _extensions fields refer to (a builder stores a reference *)
(* to a list, and the two constructors each own one default list object).  *)
(* A method is an operator that yields the exception it raises (or "None"),*)
(* the heaps after the call, the object it returns and the call it makes   *)
(* to the backend.  last is the call the caller has just made and not yet  *)
(* consumed; origin records, for every builder, the builder and the method *)
(* it was made by (history, not program state).  threads holds, for the    *)
(* runs in which threads share builders, the call each thread is in.       *)
(***************************************************************************)
EXTENDS Integers, Sequences, FiniteSets, TLC

VARIABLES reqs, resps, lists, origin, last, threads

vars == <<reqs, resps, lists, origin, last, threads>>

\* The number of builder objects (of both classes together) a run constructs.
MaxBuilders == 3

\* The number of calls the threads of a concurrent run make, all together.
MaxCalls == 2

(***************************************************************************)
(* Python values.                                                          *)
(***************************************************************************)

\* Python's None where the value is a name, and an optional slot: a sequence
\* of no element (None) or of one (the value).
None == "None"
Unset == <<>>
Some(v) == <<v>>

\* Instances of x509.Certificate, and a value that is none.
Certificates == {"cert1", "cert2"}
NotACertificate == "notACertificate"

\* A hash algorithm instance is modelled by the name of its class.
_ALLOWED_HASHES == {"SHA1", "SHA224", "SHA256", "SHA384", "SHA512"}

_OIDS_TO_HASH ==
    [oid \in {"1.3.14.3.2.26", "2.16.840.1.101.3.4.2.4", "2.16.840.1.101.3.4.2.1",
              "2.16.840.1.101.3.4.2.2", "2.16.840.1.101.3.4.2.3"} |->
        CASE oid = "1.3.14.3.2.26" -> "SHA1"
          [] oid = "2.16.840.1.101.3.4.2.4" -> "SHA224"
          [] oid = "2.16.840.1.101.3.4.2.1" -> "SHA256"
          [] oid = "2.16.840.1.101.3.4.2.2" -> "SHA384"
          [] oid = "2.16.840.1.101.3.4.2.3" -> "SHA512"]

OCSPResponderEncoding == {"HASH", "NAME"}

OCSPResponseStatus ==
    {"SUCCESSFUL", "MALFORMED_REQUEST", "INTERNAL_ERROR", "TRY_LATER",
     "SIG_REQUIRED", "UNAUTHORIZED"}

OCSPCertStatus == {"GOOD", "REVOKED", "UNKNOWN"}

\* Members of x509.ReasonFlags.
ReasonFlags == {"key_compromise", "superseded"}

\* A datetime: t is its wall-clock reading in ticks, aware whether it carries
\* a tzinfo, off its UTC offset in ticks (0 when naive).
Datetime(t, aware, off) == [type |-> "datetime", t |-> t, aware |-> aware, off |-> off]
NoneValue == [type |-> "NoneType", t |-> 0, aware |-> FALSE, off |-> 0]
NotADatetime == [type |-> "str", t |-> 0, aware |-> FALSE, off |-> 0]
IsDatetime(v) == v.type = "datetime"

\* x509.base._EARLIEST_UTC_TIME, datetime(1950, 1, 1), in ticks.
_EARLIEST_UTC_TIME == 1950

\* x509.base._convert_to_naive_utc_time: an aware datetime loses its tzinfo
\* and its offset is subtracted; a naive one is returned as it is.
_convert_to_naive_utc_time(time) ==
    IF time.aware THEN Datetime(time.t - time.off, FALSE, 0) ELSE time

\* Instances of x509.ExtensionType with their oid, and a value that is none.
ExtensionTypes == {"nonceA", "nonceB", "crlNumber"}
NotAnExtensionType == "notAnExtensionType"
OidOf(extval) == IF extval \in {"nonceA", "nonceB"} THEN "OCSP_NONCE" ELSE "CRL_NUMBER"

\* x509.Extension(oid, critical, value).
Extension(oid, critical, value) == [oid |-> oid, critical |-> critical, value |-> value]

\* x509.base._reject_duplicate_extension: an extension of the same oid is in
\* the list already.
_reject_duplicate_extension(extension, extensions) ==
    \E i \in 1..Len(extensions) : extensions[i].oid = extension.oid

(***************************************************************************)
(* The outcome of a method call.                                           *)
(***************************************************************************)

NoCall == [fn |-> "None", status |-> None, builder |-> 0, private_key |-> None,
           algorithm |-> None]

\* raise exc(msg): the heaps are as they were, nothing is returned.
Raise(exc, msg) ==
    [exc |-> exc, msg |-> msg, reqs |-> reqs, resps |-> resps, lists |-> lists,
     ret |-> 0, call |-> NoCall]

\* return backend.<fn>(...): the backend is called, the heaps are as they were.
ReturnBackend(call) ==
    [exc |-> None, msg |-> "", reqs |-> reqs, resps |-> resps, lists |-> lists,
     ret |-> 0, call |-> call]

\* _verify_algorithm testing for any hash algorithm instance.
_verify_algorithm_any_hash(algorithm) == algorithm = None

\* _verify_algorithm: TRUE when it raises.
_verify_algorithm(algorithm) == algorithm \notin _ALLOWED_HASHES

(***************************************************************************)
(* A method is written in two parts: its checks, which yield the exception *)
(* raised or NoRaise, and what it does once they have passed.  The checks  *)
(* read self's slots; the rest reads the fields it copies.                 *)
(***************************************************************************)

NoRaise == [exc |-> None, msg |-> ""]
Raises(exc, msg) == [exc |-> exc, msg |-> msg]

Method(check, made) == IF check.exc # None THEN Raise(check.exc, check.msg) ELSE made

(***************************************************************************)
(* OCSPRequestBuilder.  b is the index of self in reqs.                    *)
(***************************************************************************)

\* OCSPRequestBuilder.__init__: the default of extensions is the one list
\* object made when the function was defined, lists[1].
RequestDefaultExtensions == 1

OCSPRequestBuilder(request, extensions) ==
    [request |-> request, extensions |-> extensions]

\* return OCSPRequestBuilder(request, extensions), the list heap being ls.
ReturnRequestBuilder(request, extensions, ls) ==
    [exc |-> None, msg |-> "", reqs |-> Append(reqs, OCSPRequestBuilder(request, extensions)),
     resps |-> resps, lists |-> ls, ret |-> Len(reqs) + 1, call |-> NoCall]

\* add_certificate without its test of the slot.
add_certificate_check_no_slot_test(b, cert, issuer, algorithm) ==
    IF _verify_algorithm(algorithm)
    THEN Raises("ValueError", "Algorithm must be SHA1, SHA224, SHA256, SHA384, or SHA512")
    ELSE IF cert \notin Certificates \/ issuer \notin Certificates
    THEN Raises("TypeError", "cert and issuer must be a Certificate")
    ELSE NoRaise

\* add_certificate testing the slot after it has validated its arguments.
add_certificate_check_slot_test_last(b, cert, issuer, algorithm) ==
    IF _verify_algorithm(algorithm)
    THEN Raises("ValueError", "Algorithm must be SHA1, SHA224, SHA256, SHA384, or SHA512")
    ELSE IF cert \notin Certificates \/ issuer \notin Certificates
    THEN Raises("TypeError", "cert and issuer must be a Certificate")
    ELSE IF reqs[b].request # Unset
    THEN Raises("ValueError", "Only one certificate can be added to a request")
    ELSE NoRaise

add_certificate_check(b, cert, issuer, algorithm) ==
    IF reqs[b].request # Unset
    THEN Raises("ValueError", "Only one certificate can be added to a request")
    ELSE IF _verify_algorithm(algorithm)
    THEN Raises("ValueError", "Algorithm must be SHA1, SHA224, SHA256, SHA384, or SHA512")
    ELSE IF cert \notin Certificates \/ issuer \notin Certificates
    THEN Raises("TypeError", "cert and issuer must be a Certificate")
    ELSE NoRaise

add_certificate_make(b, cert, issuer, algorithm) ==
    ReturnRequestBuilder(Some(<<cert, issuer, algorithm>>), reqs[b].extensions, lists)

add_certificate(b, cert, issuer, algorithm) ==
    Method(add_certificate_check(b, cert, issuer, algorithm),
           add_certificate_make(b, cert, issuer, algorithm))

request_add_extension_check(b, extval, critical) ==
    IF extval \notin ExtensionTypes
    THEN Raises("TypeError", "extension must be an ExtensionType")
    ELSE IF _reject_duplicate_extension(Extension(OidOf(extval), critical, extval),
                                        lists[reqs[b].extensions])
    THEN Raises("ValueError", "This extension has already been set.")
    ELSE NoRaise

\* add_extension appending to self's list and passing that list on.
request_add_extension_make_in_place(b, extval, critical) ==
    LET extension == Extension(OidOf(extval), critical, extval) IN
    ReturnRequestBuilder(reqs[b].request, reqs[b].extensions,
                         [lists EXCEPT ![reqs[b].extensions] = @ \o <<extension>>])

\* add_extension appending to self's list and passing a copy of it on.
request_add_extension_make_appends_then_copies(b, extval, critical) ==
    LET extension == Extension(OidOf(extval), critical, extval)
        appended == [lists EXCEPT ![reqs[b].extensions] = @ \o <<extension>>]
    IN
    ReturnRequestBuilder(reqs[b].request, Len(lists) + 1,
                         Append(appended, appended[reqs[b].extensions]))

\* add_extension putting the new extension in front of the old ones.
request_add_extension_make_prepends(b, extval, critical) ==
    LET extension == Extension(OidOf(extval), critical, extval) IN
    ReturnRequestBuilder(reqs[b].request, Len(lists) + 1,
                         Append(lists, <<extension>> \o lists[reqs[b].extensions]))

request_add_extension_make(b, extval, critical) ==
    LET extension == Extension(OidOf(extval), critical, extval) IN
    ReturnRequestBuilder(reqs[b].request, Len(lists) + 1,
                         Append(lists, lists[reqs[b].extensions] \o <<extension>>))

request_add_extension(b, extval, critical) ==
    Method(request_add_extension_check(b, extval, critical),
           request_add_extension_make(b, extval, critical))

build_check(b) ==
    IF reqs[b].request = Unset
    THEN Raises("ValueError", "You must add a certificate before building")
    ELSE NoRaise

build_make(b) ==
    ReturnBackend([NoCall EXCEPT !.fn = "create_ocsp_request", !.builder = b])

build(b) == Method(build_check(b), build_make(b))

(***************************************************************************)
(* _SingleResponse and OCSPResponseBuilder.  b is the index of self in     *)
(* resps.                                                                  *)
(***************************************************************************)

SingleResponseRaise(exc, msg) == [exc |-> exc, msg |-> msg, obj |-> Unset]

\* _SingleResponse.__init__, the tests of cert, issuer, algorithm, this_update,
\* next_update and of the type of cert_status.
_SingleResponse_arguments_check(cert, issuer, algorithm, cert_status, this_update, next_update) ==
    IF cert \notin Certificates \/ issuer \notin Certificates
    THEN Raises("TypeError", "cert and issuer must be a Certificate")
    ELSE IF _verify_algorithm(algorithm)
    THEN Raises("ValueError", "Algorithm must be SHA1, SHA224, SHA256, SHA384, or SHA512")
    ELSE IF ~IsDatetime(this_update)
    THEN Raises("TypeError", "this_update must be a datetime object")
    ELSE IF next_update # NoneValue /\ ~IsDatetime(next_update)
    THEN Raises("TypeError", "next_update must be a datetime object or None")
    ELSE IF cert_status \notin OCSPCertStatus
    THEN Raises("TypeError", "cert_status must be an item from the OCSPCertStatus enum")
    ELSE NoRaise

\* The tests of the revocation fields without the one that refuses a
\* revocation_time given for a certificate that is not revoked.
_SingleResponse_revocation_check_time_allowed(cert_status, revocation_time, revocation_reason) ==
    IF cert_status # "REVOKED"
    THEN IF revocation_reason # None
         THEN Raises("ValueError",
                     "revocation_reason can only be provided if the certificate is revoked")
         ELSE NoRaise
    ELSE IF ~IsDatetime(revocation_time)
    THEN Raises("TypeError", "revocation_time must be a datetime object")
    ELSE IF _convert_to_naive_utc_time(revocation_time).t < _EARLIEST_UTC_TIME
    THEN Raises("ValueError", "The revocation_time must be on or after 1950 January 1.")
    ELSE IF revocation_reason # None /\ revocation_reason \notin ReasonFlags
    THEN Raises("TypeError",
                "revocation_reason must be an item from the ReasonFlags enum or None")
    ELSE NoRaise

\* The tests of the revocation fields without the isinstance test of
\* revocation_time: the conversion then fails on a value that is no datetime.
_SingleResponse_revocation_check_no_type_test(cert_status, revocation_time, revocation_reason) ==
    IF cert_status # "REVOKED"
    THEN IF revocation_time # NoneValue
         THEN Raises("ValueError",
                     "revocation_time can only be provided if the certificate is revoked")
         ELSE IF revocation_reason # None
         THEN Raises("ValueError",
                     "revocation_reason can only be provided if the certificate is revoked")
         ELSE NoRaise
    ELSE IF ~IsDatetime(revocation_time)
    THEN Raises("AttributeError", "object has no attribute 'tzinfo'")
    ELSE IF _convert_to_naive_utc_time(revocation_time).t < _EARLIEST_UTC_TIME
    THEN Raises("ValueError", "The revocation_time must be on or after 1950 January 1.")
    ELSE IF revocation_reason # None /\ revocation_reason \notin ReasonFlags
    THEN Raises("TypeError",
                "revocation_reason must be an item from the ReasonFlags enum or None")
    ELSE NoRaise

\* _SingleResponse.__init__, the tests of revocation_time and revocation_reason
\* against cert_status.
_SingleResponse_revocation_check(cert_status, revocation_time, revocation_reason) ==
    IF cert_status # "REVOKED"
    THEN IF revocation_time # NoneValue
         THEN Raises("ValueError",
                     "revocation_time can only be provided if the certificate is revoked")
         ELSE IF revocation_reason # None
         THEN Raises("ValueError",
                     "revocation_reason can only be provided if the certificate is revoked")
         ELSE NoRaise
    ELSE IF ~IsDatetime(revocation_time)
    THEN Raises("TypeError", "revocation_time must be a datetime object")
    ELSE IF _convert_to_naive_utc_time(revocation_time).t < _EARLIEST_UTC_TIME
    THEN Raises("ValueError", "The revocation_time must be on or after 1950 January 1.")
    ELSE IF revocation_reason # None /\ revocation_reason \notin ReasonFlags
    THEN Raises("TypeError",
                "revocation_reason must be an item from the ReasonFlags enum or None")
    ELSE NoRaise

\* _SingleResponse.__init__: the exception it raises, or the object made.
\* The revocation_time kept is the one converted to naive UTC.
_SingleResponse(cert, issuer, algorithm, cert_status, this_update, next_update, revocation_time, revocation_reason) ==
    LET arguments == _SingleResponse_arguments_check(cert, issuer, algorithm, cert_status,
                                                     this_update, next_update)
        revocation == _SingleResponse_revocation_check(cert_status, revocation_time,
                                                       revocation_reason)
    IN
    IF arguments.exc # None THEN SingleResponseRaise(arguments.exc, arguments.msg)
    ELSE IF revocation.exc # None THEN SingleResponseRaise(revocation.exc, revocation.msg)
    ELSE [exc |-> None, msg |-> "",
          obj |-> Some([cert |-> cert, issuer |-> issuer, algorithm |-> algorithm,
                        this_update |-> this_update, next_update |-> next_update,
                        cert_status |-> cert_status,
                        revocation_time |->
                            IF cert_status = "REVOKED"
                            THEN _convert_to_naive_utc_time(revocation_time)
                            ELSE revocation_time,
                        revocation_reason |-> revocation_reason])]

\* OCSPResponseBuilder.__init__: the default of extensions is the one list
\* object made when the function was defined, lists[2].
ResponseDefaultExtensions == 2

OCSPResponseBuilder(response, responder_id, certs, extensions) ==
    [response |-> response, responder_id |-> responder_id, certs |-> certs,
     extensions |-> extensions]

\* return OCSPResponseBuilder(response, responder_id, certs, extensions), the
\* list heap being ls.
ReturnResponseBuilder(response, responder_id, certs, extensions, ls) ==
    [exc |-> None, msg |-> "", reqs |-> reqs,
     resps |-> Append(resps, OCSPResponseBuilder(response, responder_id, certs, extensions)),
     lists |-> ls, ret |-> Len(resps) + 1, call |-> NoCall]

add_response_check(b, cert, issuer, algorithm, cert_status, this_update, next_update, revocation_time, revocation_reason) ==
    IF resps[b].response # Unset
    THEN Raises("ValueError", "Only one response per OCSPResponse.")
    ELSE LET singleresp == _SingleResponse(cert, issuer, algorithm, cert_status,
                                           this_update, next_update, revocation_time,
                                           revocation_reason) IN
         Raises(singleresp.exc, singleresp.msg)

\* add_response constructing the new builder without self's responder id.
add_response_make_drops_responder_id(b, cert, issuer, algorithm, cert_status, this_update, next_update, revocation_time, revocation_reason) ==
    LET singleresp == _SingleResponse(cert, issuer, algorithm, cert_status,
                                      this_update, next_update, revocation_time,
                                      revocation_reason) IN
    ReturnResponseBuilder(singleresp.obj, Unset, resps[b].certs,
                          resps[b].extensions, lists)

add_response_make(b, cert, issuer, algorithm, cert_status, this_update, next_update, revocation_time, revocation_reason) ==
    LET singleresp == _SingleResponse(cert, issuer, algorithm, cert_status,
                                      this_update, next_update, revocation_time,
                                      revocation_reason) IN
    ReturnResponseBuilder(singleresp.obj, resps[b].responder_id, resps[b].certs,
                          resps[b].extensions, lists)

add_response(b, cert, issuer, algorithm, cert_status, this_update, next_update, revocation_time, revocation_reason) ==
    Method(add_response_check(b, cert, issuer, algorithm, cert_status, this_update,
                              next_update, revocation_time, revocation_reason),
           add_response_make(b, cert, issuer, algorithm, cert_status, this_update,
                             next_update, revocation_time, revocation_reason))

\* responder_id without its test of the slot.
responder_id_check_no_slot_test(b, encoding, responder_cert) ==
    IF responder_cert \notin Certificates
    THEN Raises("TypeError", "responder_cert must be a Certificate")
    ELSE IF encoding \notin OCSPResponderEncoding
    THEN Raises("TypeError", "encoding must be an element from OCSPResponderEncoding")
    ELSE NoRaise

\* responder_id testing the slot after it has validated its arguments.
responder_id_check_slot_test_last(b, encoding, responder_cert) ==
    IF responder_cert \notin Certificates
    THEN Raises("TypeError", "responder_cert must be a Certificate")
    ELSE IF encoding \notin OCSPResponderEncoding
    THEN Raises("TypeError", "encoding must be an element from OCSPResponderEncoding")
    ELSE IF resps[b].responder_id # Unset
    THEN Raises("ValueError", "responder_id can only be set once")
    ELSE NoRaise

responder_id_check(b, encoding, responder_cert) ==
    IF resps[b].responder_id # Unset
    THEN Raises("ValueError", "responder_id can only be set once")
    ELSE IF responder_cert \notin Certificates
    THEN Raises("TypeError", "responder_cert must be a Certificate")
    ELSE IF encoding \notin OCSPResponderEncoding
    THEN Raises("TypeError", "encoding must be an element from OCSPResponderEncoding")
    ELSE NoRaise

responder_id_make(b, encoding, responder_cert) ==
    ReturnResponseBuilder(resps[b].response, Some(<<responder_cert, encoding>>),
                          resps[b].certs, resps[b].extensions, lists)

responder_id(b, encoding, responder_cert) ==
    Method(responder_id_check(b, encoding, responder_cert),
           responder_id_make(b, encoding, responder_cert))

\* certificates without its test for an empty list.
certificates_check_no_empty_test(b, certs) ==
    IF resps[b].certs # Unset
    THEN Raises("ValueError", "certificates may only be set once")
    ELSE IF \E i \in 1..Len(certs) : certs[i] \notin Certificates
    THEN Raises("TypeError", "certs must be a list of Certificates")
    ELSE NoRaise

certificates_check(b, certs) ==
    IF resps[b].certs # Unset
    THEN Raises("ValueError", "certificates may only be set once")
    ELSE IF Len(certs) = 0
    THEN Raises("ValueError", "certs must not be an empty list")
    ELSE IF \E i \in 1..Len(certs) : certs[i] \notin Certificates
    THEN Raises("TypeError", "certs must be a list of Certificates")
    ELSE NoRaise

certificates_make(b, certs) ==
    ReturnResponseBuilder(resps[b].response, resps[b].responder_id, Some(certs),
                          resps[b].extensions, lists)

\* certificates storing the list in self before it is validated.
certificates_stores_first(b, certs) ==
    LET stored == [Method(certificates_check(b, certs), certificates_make(b, certs))
                   EXCEPT !.resps[b].certs = Some(certs)] IN
    IF resps[b].certs # Unset THEN Raise("ValueError", "certificates may only be set once")
    ELSE stored

certificates(b, certs) == Method(certificates_check(b, certs), certificates_make(b, certs))

response_add_extension_check(b, extval, critical) ==
    IF extval \notin ExtensionTypes
    THEN Raises("TypeError", "extension must be an ExtensionType")
    ELSE IF _reject_duplicate_extension(Extension(OidOf(extval), critical, extval),
                                        lists[resps[b].extensions])
    THEN Raises("ValueError", "This extension has already been set.")
    ELSE NoRaise

\* add_extension appending to self's list and passing that list on.
response_add_extension_make_in_place(b, extval, critical) ==
    LET extension == Extension(OidOf(extval), critical, extval) IN
    ReturnResponseBuilder(resps[b].response, resps[b].responder_id, resps[b].certs,
                          resps[b].extensions,
                          [lists EXCEPT ![resps[b].extensions] = @ \o <<extension>>])

response_add_extension_make(b, extval, critical) ==
    LET extension == Extension(OidOf(extval), critical, extval) IN
    ReturnResponseBuilder(resps[b].response, resps[b].responder_id, resps[b].certs,
                          Len(lists) + 1,
                          Append(lists, lists[resps[b].extensions] \o <<extension>>))

response_add_extension(b, extval, critical) ==
    Method(response_add_extension_check(b, extval, critical),
           response_add_extension_make(b, extval, critical))

\* sign without its test of the responder id.
sign_check_no_responder_test(b, private_key, algorithm) ==
    IF resps[b].response = Unset
    THEN Raises("ValueError", "You must add a response before signing")
    ELSE NoRaise

sign_check(b, private_key, algorithm) ==
    IF resps[b].response = Unset
    THEN Raises("ValueError", "You must add a response before signing")
    ELSE IF resps[b].responder_id = Unset
    THEN Raises("ValueError", "You must add a responder_id before signing")
    ELSE NoRaise

\* sign clearing the response of self once it has called the backend.
sign_make_consumes(b, private_key, algorithm) ==
    [exc |-> None, msg |-> "", reqs |-> reqs,
     resps |-> [resps EXCEPT ![b].response = Unset], lists |-> lists, ret |-> 0,
     call |-> [fn |-> "create_ocsp_response", status |-> "SUCCESSFUL", builder |-> b,
               private_key |-> private_key, algorithm |-> algorithm]]

sign_make(b, private_key, algorithm) ==
    ReturnBackend([fn |-> "create_ocsp_response", status |-> "SUCCESSFUL",
                   builder |-> b, private_key |-> private_key,
                   algorithm |-> algorithm])

sign(b, private_key, algorithm) ==
    Method(sign_check(b, private_key, algorithm), sign_make(b, private_key, algorithm))

\* build_unsuccessful without its test for SUCCESSFUL.
build_unsuccessful_check_any_status(response_status) ==
    IF response_status \notin OCSPResponseStatus
    THEN Raises("TypeError", "response_status must be an item from OCSPResponseStatus")
    ELSE NoRaise

\* A classmethod: there is no self.
build_unsuccessful_check(response_status) ==
    IF response_status \notin OCSPResponseStatus
    THEN Raises("TypeError", "response_status must be an item from OCSPResponseStatus")
    ELSE IF response_status = "SUCCESSFUL"
    THEN Raises("ValueError", "response_status cannot be SUCCESSFUL")
    ELSE NoRaise

build_unsuccessful_make(response_status) ==
    ReturnBackend([fn |-> "create_ocsp_response", status |-> response_status,
                   builder |-> 0, private_key |-> None, algorithm |-> None])

build_unsuccessful(response_status) ==
    Method(build_unsuccessful_check(response_status),
           build_unsuccessful_make(response_status))

(***************************************************************************)
(* The caller.                                                             *)
(***************************************************************************)

NoArgs == [none |-> None]

\* What the caller remembers of the call before this one, when it makes a
\* call right after another.
NoFollow == [op |-> "None", self |-> 0, exc |-> None, msg |-> "", ret |-> 0]
Idle == [op |-> "None", self |-> 0, args |-> NoArgs, exc |-> None, msg |-> "",
         ret |-> 0, call |-> NoCall, follows |-> NoFollow]

\* The builder a new builder was made from, and the method that made it.
Origin(op, b) == [parent |-> b, via |-> op]

\* The caller makes the call op on builder b with args, r being its outcome
\* and prev the call it follows; the run constructs at most bound builders.
CallWithin(bound, prev, op, b, args, r) ==
    /\ Len(r.reqs) + Len(r.resps) <= bound
    /\ reqs' = r.reqs
    /\ resps' = r.resps
    /\ lists' = r.lists
    /\ origin' = [req |-> IF Len(r.reqs) > Len(reqs)
                          THEN Append(origin.req, Origin(op, b)) ELSE origin.req,
                  resp |-> IF Len(r.resps) > Len(resps)
                           THEN Append(origin.resp, Origin(op, b)) ELSE origin.resp]
    /\ last' = [op |-> op, self |-> b, args |-> args, exc |-> r.exc, msg |-> r.msg,
                ret |-> r.ret, call |-> r.call, follows |-> prev]
    /\ UNCHANGED threads

CallAfter(prev, op, b, args, r) == CallWithin(MaxBuilders, prev, op, b, args, r)

Call(op, b, args, r) == CallAfter(NoFollow, op, b, args, r)

\* A call made on a builder right after build or sign: it may construct one
\* builder more, so that it can succeed on the last builder of a run.
CallAfterTerminal(prev, op, b, args, r) ==
    CallWithin(MaxBuilders + 1, prev, op, b, args, r)

\* The builder the caller holds after a call made as builder = builder.m(...):
\* the one returned, or the receiver when the call raised.
Held(c) == IF c.exc = None /\ c.ret # 0 THEN c.ret ELSE c.self

\* The arguments the caller draws from.
CertArgs == {"cert1", NotACertificate}
IssuerArgs == {"cert2", NotACertificate}
AlgorithmArgs == {"SHA1", "SHA256", "MD5"}
ExtvalArgs == ExtensionTypes \cup {NotAnExtensionType}

EncodingArgs == {"HASH", "NAME", "notAnEncoding"}
CertificatesArgs ==
    {<<>>, <<"cert1">>, <<"cert1", "cert2">>, <<"cert2", "cert1">>,
     <<"cert1", NotACertificate>>}
PrivateKeyArgs == {"key1"}
SignAlgorithmArgs == {"SHA256", "MD5", None}
StatusArgs == OCSPResponseStatus \cup {"notAStatus"}

\* The arguments of add_response in the runs that chain builders: one
\* subject, one issuer and one this_update, and every combination of the
\* status with the revocation fields.
AddResponseArgs ==
    [cert : {"cert1"}, issuer : {"cert2"}, algorithm : {"SHA256", "MD5"},
     cert_status : {"GOOD", "REVOKED"},
     this_update : {Datetime(1950, FALSE, 0)}, next_update : {NoneValue},
     revocation_time : {NoneValue, Datetime(1950, FALSE, 0)},
     revocation_reason : {None, "key_compromise"}]

\* The arguments of add_response in the runs that make one call on a new
\* builder: every combination of valid and invalid values.
Datetimes ==
    {Datetime(1949, FALSE, 0), Datetime(1950, FALSE, 0), Datetime(1950, TRUE, 1),
     Datetime(1951, TRUE, 1)}
DatetimeArgs == Datetimes \cup {NoneValue, NotADatetime}
AllAddResponseArgs ==
    [cert : Certificates \cup {NotACertificate},
     issuer : Certificates \cup {NotACertificate},
     algorithm : _ALLOWED_HASHES \cup {"MD5", None},
     cert_status : OCSPCertStatus \cup {"notACertStatus"},
     this_update : DatetimeArgs, next_update : DatetimeArgs,
     revocation_time : DatetimeArgs,
     revocation_reason : ReasonFlags \cup {None, "notAReasonFlag"}]

\* The algorithms of the runs that try every algorithm at every method
\* that takes one: the five allowed classes, two other hash classes and None.
AllAlgorithmArgs == _ALLOWED_HASHES \cup {"MD5", "SHA3_256", None}
AlgorithmAddResponseArgs ==
    [cert : CertArgs, issuer : {"cert2"}, algorithm : AllAlgorithmArgs,
     cert_status : {"GOOD"}, this_update : {Datetime(1950, FALSE, 0)},
     next_update : {NoneValue}, revocation_time : {NoneValue}, revocation_reason : {None}]

\* The arguments of add_response in the runs that chain builders up to sign
\* with timestamps on both sides of 1950.
TimedAddResponseArgs ==
    [cert : {"cert1"}, issuer : {"cert2"}, algorithm : {"SHA256", "MD5"},
     cert_status : {"GOOD", "REVOKED"},
     this_update : {Datetime(1949, FALSE, 0), Datetime(1950, FALSE, 0), Datetime(1951, TRUE, 1)},
     next_update : {NoneValue, Datetime(1949, FALSE, 0)},
     revocation_time : {NoneValue, Datetime(1949, FALSE, 0), Datetime(1950, FALSE, 0)},
     revocation_reason : {None}]

\* The arguments of a valid add_response call for a good certificate.
SharedResponse ==
    [cert |-> "cert1", issuer |-> "cert2", algorithm |-> "SHA256",
     this_update |-> Datetime(1950, FALSE, 0), next_update |-> NoneValue,
     cert_status |-> "GOOD", revocation_time |-> NoneValue, revocation_reason |-> None]

\* The threads of a concurrent run, and a thread that is in no call.
Threads == {"t1", "t2"}
NoResult == [exc |-> None, msg |-> "", call |-> NoCall, made |-> Unset]
ThreadIdle(n) ==
    [pc |-> "idle", op |-> "None", self |-> 0, args |-> NoArgs, alone |-> NoResult,
     result |-> NoResult, calls |-> n, interleaved |-> FALSE]

Init ==
    /\ reqs = <<>>
    /\ resps = <<>>
    /\ lists = << <<>>, <<>> >>
    /\ origin = [req |-> <<>>, resp |-> <<>>]
    /\ last = Idle
    /\ threads = [t \in Threads |-> ThreadIdle(0)]

\* OCSPRequestBuilder()
NewRequestBuilder ==
    /\ last = Idle
    /\ Call("OCSPRequestBuilder", 0, NoArgs,
            ReturnRequestBuilder(Unset, RequestDefaultExtensions, lists))

RequestAddCertificate ==
    /\ last = Idle
    /\ \E b \in 1..Len(reqs), cert \in CertArgs, issuer \in IssuerArgs,
          algorithm \in AlgorithmArgs :
          Call("add_certificate", b,
               [cert |-> cert, issuer |-> issuer, algorithm |-> algorithm],
               add_certificate(b, cert, issuer, algorithm))

\* builder = builder.add_certificate(...) right after another add_certificate,
\* whatever became of the first.
RequestAddCertificateAgain ==
    /\ last.op = "add_certificate"
    /\ last.follows = NoFollow
    /\ \E cert \in CertArgs, issuer \in IssuerArgs, algorithm \in AlgorithmArgs :
          CallAfter([op |-> last.op, self |-> last.self, exc |-> last.exc,
                     msg |-> last.msg, ret |-> last.ret],
                    "add_certificate", Held(last),
                    [cert |-> cert, issuer |-> issuer, algorithm |-> algorithm],
                    add_certificate(Held(last), cert, issuer, algorithm))

RequestAddExtension ==
    /\ last = Idle
    /\ \E b \in 1..Len(reqs), extval \in ExtvalArgs, critical \in BOOLEAN :
          Call("request_add_extension", b, [extval |-> extval, critical |-> critical],
               request_add_extension(b, extval, critical))

RequestBuild ==
    /\ last = Idle
    /\ \E b \in 1..Len(reqs) : Call("build", b, NoArgs, build(b))

\* OCSPResponseBuilder()
NewResponseBuilder ==
    /\ last = Idle
    /\ Call("OCSPResponseBuilder", 0, NoArgs,
            ReturnResponseBuilder(Unset, Unset, Unset, ResponseDefaultExtensions, lists))

ResponseAddResponse ==
    /\ last = Idle
    /\ \E b \in 1..Len(resps), a \in AddResponseArgs :
          Call("add_response", b, a,
               add_response(b, a.cert, a.issuer, a.algorithm, a.cert_status,
                            a.this_update, a.next_update, a.revocation_time,
                            a.revocation_reason))

\* OCSPResponseBuilder().add_response(...): the first call on a new builder.
ResponseAddResponseFirst ==
    /\ last = Idle
    /\ reqs = <<>>
    /\ Len(resps) = 1
    /\ \E a \in AllAddResponseArgs :
          Call("add_response", 1, a,
               add_response(1, a.cert, a.issuer, a.algorithm, a.cert_status,
                            a.this_update, a.next_update, a.revocation_time,
                            a.revocation_reason))

ResponseResponderId ==
    /\ last = Idle
    /\ \E b \in 1..Len(resps), encoding \in EncodingArgs, responder_cert \in CertArgs :
          Call("responder_id", b, [encoding |-> encoding, responder_cert |-> responder_cert],
               responder_id(b, encoding, responder_cert))

ResponseCertificates ==
    /\ last = Idle
    /\ \E b \in 1..Len(resps), certs \in CertificatesArgs :
          Call("certificates", b, [certs |-> certs], certificates(b, certs))

\* builder.certificates(...) on the builder of the certificates call just
\* made, whatever became of that call.
ResponseCertificatesAgain ==
    /\ last.op = "certificates"
    /\ last.follows = NoFollow
    /\ \E certs \in CertificatesArgs :
          CallAfter([op |-> last.op, self |-> last.self, exc |-> last.exc,
                     msg |-> last.msg, ret |-> last.ret],
                    "certificates", last.self, [certs |-> certs],
                    certificates(last.self, certs))

ResponseAddExtension ==
    /\ last = Idle
    /\ \E b \in 1..Len(resps), extval \in ExtvalArgs, critical \in BOOLEAN :
          Call("response_add_extension", b, [extval |-> extval, critical |-> critical],
               response_add_extension(b, extval, critical))

ResponseSign ==
    /\ last = Idle
    /\ \E b \in 1..Len(resps), private_key \in PrivateKeyArgs, algorithm \in SignAlgorithmArgs :
          Call("sign", b, [private_key |-> private_key, algorithm |-> algorithm],
               sign(b, private_key, algorithm))

ResponseBuildUnsuccessful ==
    /\ last = Idle
    /\ \E response_status \in StatusArgs :
          Call("build_unsuccessful", 0, [response_status |-> response_status],
               build_unsuccessful(response_status))

\* The caller has looked at the outcome of its call.
Return ==
    /\ last # Idle
    /\ last' = Idle
    /\ UNCHANGED <<reqs, resps, lists, origin, threads>>

Next ==
    \/ NewRequestBuilder
    \/ RequestAddCertificate
    \/ RequestAddCertificateAgain
    \/ RequestAddExtension
    \/ RequestBuild
    \/ NewResponseBuilder
    \/ ResponseAddResponse
    \/ ResponseResponderId
    \/ ResponseCertificates
    \/ ResponseAddExtension
    \/ ResponseSign
    \/ ResponseBuildUnsuccessful
    \/ Return

Spec == Init /\ [][Next]_vars

\* One add_response call on a new response builder, on all its arguments.
NextSingleResponse ==
    \/ NewResponseBuilder
    \/ ResponseAddResponseFirst
    \/ Return

SpecSingleResponse == Init /\ [][NextSingleResponse]_vars

RequestAddCertificateAlgorithm ==
    /\ last = Idle
    /\ \E b \in 1..Len(reqs), cert \in CertArgs, algorithm \in AllAlgorithmArgs :
          Call("add_certificate", b,
               [cert |-> cert, issuer |-> "cert2", algorithm |-> algorithm],
               add_certificate(b, cert, "cert2", algorithm))

ResponseAddResponseAlgorithm ==
    /\ last = Idle
    /\ \E b \in 1..Len(resps), a \in AlgorithmAddResponseArgs :
          Call("add_response", b, a,
               add_response(b, a.cert, a.issuer, a.algorithm, a.cert_status,
                            a.this_update, a.next_update, a.revocation_time,
                            a.revocation_reason))

ResponseSignAlgorithm ==
    /\ last = Idle
    /\ \E b \in 1..Len(resps), algorithm \in AllAlgorithmArgs :
          Call("sign", b, [private_key |-> "key1", algorithm |-> algorithm],
               sign(b, "key1", algorithm))

ResponseAddResponseTimed ==
    /\ last = Idle
    /\ \E b \in 1..Len(resps), a \in TimedAddResponseArgs :
          Call("add_response", b, a,
               add_response(b, a.cert, a.issuer, a.algorithm, a.cert_status,
                            a.this_update, a.next_update, a.revocation_time,
                            a.revocation_reason))

\* Both builders up to build and sign, with timestamps on both sides of 1950.
NextEager ==
    \/ NewRequestBuilder
    \/ RequestAddCertificate
    \/ RequestAddExtension
    \/ RequestBuild
    \/ NewResponseBuilder
    \/ ResponseAddResponseTimed
    \/ ResponseResponderId
    \/ ResponseCertificates
    \/ ResponseAddExtension
    \/ ResponseSign
    \/ Return

SpecEager == Init /\ [][NextEager]_vars

\* What the caller remembers of the call it has just made.
Followed == [op |-> last.op, self |-> last.self, exc |-> last.exc, msg |-> last.msg,
             ret |-> last.ret]

\* A call on the builder build() has just been called on: build() again, or
\* add_extension.
RequestAfterBuild ==
    /\ last.op = "build"
    /\ last.follows = NoFollow
    /\ \/ CallAfterTerminal(Followed, "build", last.self, NoArgs, build(last.self))
       \/ \E extval \in ExtvalArgs, critical \in BOOLEAN :
             CallAfterTerminal(Followed, "request_add_extension", last.self,
                       [extval |-> extval, critical |-> critical],
                       request_add_extension(last.self, extval, critical))

\* A call on the builder sign() has just been called on: sign() again,
\* add_extension or certificates.
ResponseAfterSign ==
    /\ last.op = "sign"
    /\ last.follows = NoFollow
    /\ \/ \E private_key \in PrivateKeyArgs, algorithm \in SignAlgorithmArgs :
             CallAfterTerminal(Followed, "sign", last.self,
                       [private_key |-> private_key, algorithm |-> algorithm],
                       sign(last.self, private_key, algorithm))
       \/ \E extval \in ExtvalArgs, critical \in BOOLEAN :
             CallAfterTerminal(Followed, "response_add_extension", last.self,
                       [extval |-> extval, critical |-> critical],
                       response_add_extension(last.self, extval, critical))
       \/ \E certs \in CertificatesArgs :
             CallAfterTerminal(Followed, "certificates", last.self, [certs |-> certs],
                       certificates(last.self, certs))

\* The calls that make a builder ready for build or sign, with valid
\* arguments, on any builder.
RequestAddCertificateValid ==
    /\ last = Idle
    /\ \E b \in 1..Len(reqs) :
          Call("add_certificate", b,
               [cert |-> "cert1", issuer |-> "cert2", algorithm |-> "SHA256"],
               add_certificate(b, "cert1", "cert2", "SHA256"))

ResponseAddResponseValid ==
    /\ last = Idle
    /\ \E b \in 1..Len(resps) :
          Call("add_response", b, SharedResponse,
               add_response(b, SharedResponse.cert, SharedResponse.issuer,
                            SharedResponse.algorithm, SharedResponse.cert_status,
                            SharedResponse.this_update, SharedResponse.next_update,
                            SharedResponse.revocation_time,
                            SharedResponse.revocation_reason))

ResponseResponderIdValid ==
    /\ last = Idle
    /\ \E b \in 1..Len(resps) :
          Call("responder_id", b, [encoding |-> "HASH", responder_cert |-> "cert1"],
               responder_id(b, "HASH", "cert1"))

\* Both builders up to build and sign, and the calls made after these.
NextTerminal ==
    \/ NewRequestBuilder
    \/ RequestAddCertificateValid
    \/ RequestBuild
    \/ RequestAfterBuild
    \/ NewResponseBuilder
    \/ ResponseAddResponseValid
    \/ ResponseResponderIdValid
    \/ ResponseSign
    \/ ResponseAfterSign
    \/ Return

SpecTerminal == Init /\ [][NextTerminal]_vars

\* The methods that take a hash algorithm, on every algorithm.
NextAlgorithm ==
    \/ NewRequestBuilder
    \/ RequestAddCertificateAlgorithm
    \/ NewResponseBuilder
    \/ ResponseAddResponseAlgorithm
    \/ ResponseResponderId
    \/ ResponseSignAlgorithm
    \/ Return

SpecAlgorithm == Init /\ [][NextAlgorithm]_vars

\* Response builders, their responder ids and certificate lists, with
\* certificates called twice in a row on a builder.
NextCertificates ==
    \/ NewResponseBuilder
    \/ ResponseResponderId
    \/ ResponseCertificates
    \/ ResponseCertificatesAgain
    \/ Return

SpecCertificates == Init /\ [][NextCertificates]_vars

(***************************************************************************)
(* Threads sharing builders.  A method call of a thread takes three steps: *)
(* the call, the method's checks (which read self's slots), and its return *)
(* statement (which reads the fields it copies and constructs the new      *)
(* builder); the steps of the threads interleave.                          *)
(***************************************************************************)

CheckOf(op, b, a) ==
    CASE op = "add_certificate" -> add_certificate_check(b, a.cert, a.issuer, a.algorithm)
      [] op = "request_add_extension" -> request_add_extension_check(b, a.extval, a.critical)
      [] op = "build" -> build_check(b)
      [] op = "add_response" ->
            add_response_check(b, a.cert, a.issuer, a.algorithm, a.cert_status,
                               a.this_update, a.next_update, a.revocation_time,
                               a.revocation_reason)
      [] op = "responder_id" -> responder_id_check(b, a.encoding, a.responder_cert)
      [] op = "certificates" -> certificates_check(b, a.certs)
      [] op = "response_add_extension" -> response_add_extension_check(b, a.extval, a.critical)
      [] op = "sign" -> sign_check(b, a.private_key, a.algorithm)
      [] op = "build_unsuccessful" -> build_unsuccessful_check(a.response_status)

MakeOf(op, b, a) ==
    CASE op = "add_certificate" -> add_certificate_make(b, a.cert, a.issuer, a.algorithm)
      [] op = "request_add_extension" -> request_add_extension_make(b, a.extval, a.critical)
      [] op = "build" -> build_make(b)
      [] op = "add_response" ->
            add_response_make(b, a.cert, a.issuer, a.algorithm, a.cert_status,
                              a.this_update, a.next_update, a.revocation_time,
                              a.revocation_reason)
      [] op = "responder_id" -> responder_id_make(b, a.encoding, a.responder_cert)
      [] op = "certificates" -> certificates_make(b, a.certs)
      [] op = "response_add_extension" -> response_add_extension_make(b, a.extval, a.critical)
      [] op = "sign" -> sign_make(b, a.private_key, a.algorithm)
      [] op = "build_unsuccessful" -> build_unsuccessful_make(a.response_status)

RequestMethods == {"add_certificate", "request_add_extension", "build"}

\* What the caller gets from outcome r of method op: the exception or the
\* backend call, and the slots and extensions of the builder returned.
ResultOf(op, r) ==
    [exc |-> r.exc, msg |-> r.msg, call |-> r.call,
     made |-> IF r.ret = 0 THEN Unset
              ELSE IF op \in RequestMethods
              THEN Some([request |-> r.reqs[r.ret].request,
                         extensions |-> r.lists[r.reqs[r.ret].extensions]])
              ELSE Some([response |-> r.resps[r.ret].response,
                         responder_id |-> r.resps[r.ret].responder_id,
                         certs |-> r.resps[r.ret].certs,
                         extensions |-> r.lists[r.resps[r.ret].extensions]])]

\* The builders the threads share, made by the main thread before it starts
\* them: rb = OCSPRequestBuilder(), rb.add_certificate(cert1, cert2, SHA256),
\* sb = OCSPResponseBuilder(), sb.add_response(...) and, from that,
\* .responder_id(HASH, cert1).
SharedRequestBuilders ==
    <<OCSPRequestBuilder(Unset, RequestDefaultExtensions),
      OCSPRequestBuilder(Some(<<"cert1", "cert2", "SHA256">>), RequestDefaultExtensions)>>
SharedResponseBuilders ==
    <<OCSPResponseBuilder(Unset, Unset, Unset, ResponseDefaultExtensions),
      OCSPResponseBuilder(Some(SharedResponse), Unset, Unset, ResponseDefaultExtensions),
      OCSPResponseBuilder(Some(SharedResponse), Some(<<"cert1", "HASH">>), Unset,
                          ResponseDefaultExtensions)>>

InitThreads ==
    /\ reqs = SharedRequestBuilders
    /\ resps = SharedResponseBuilders
    /\ lists = << <<>>, <<>> >>
    /\ origin = [req |-> <<Origin("OCSPRequestBuilder", 0), Origin("add_certificate", 1)>>,
                 resp |-> <<Origin("OCSPResponseBuilder", 0), Origin("add_response", 1),
                            Origin("responder_id", 2)>>]
    /\ last = Idle
    /\ threads = [t \in Threads |-> ThreadIdle(0)]

\* The calls a thread draws from: of every method one that is valid on a new
\* builder and, where there is one, one with an invalid argument.
ThreadCalls ==
    {[op |-> "add_certificate", args |-> [cert |-> "cert1", issuer |-> "cert2", algorithm |-> a]] :
        a \in {"SHA1", "MD5"}}
    \cup {[op |-> "request_add_extension", args |-> [extval |-> e, critical |-> TRUE]] :
        e \in {"nonceA", "crlNumber"}}
    \cup {[op |-> "build", args |-> NoArgs]}
    \cup {[op |-> "add_response",
           args |-> [SharedResponse EXCEPT !.cert_status = "REVOKED", !.revocation_time = rt]] :
        rt \in {NoneValue, Datetime(1951, TRUE, 1)}}
    \cup {[op |-> "responder_id", args |-> [encoding |-> "NAME", responder_cert |-> "cert2"]]}
    \cup {[op |-> "certificates", args |-> [certs |-> cs]] : cs \in {<<>>, <<"cert1", "cert2">>}}
    \cup {[op |-> "response_add_extension", args |-> [extval |-> "nonceB", critical |-> FALSE]]}
    \cup {[op |-> "sign", args |-> [private_key |-> "key1", algorithm |-> "SHA256"]]}
    \cup {[op |-> "build_unsuccessful", args |-> [response_status |-> "TRY_LATER"]]}

Receivers(op) ==
    IF op \in RequestMethods THEN 1..Len(reqs)
    ELSE IF op = "build_unsuccessful" THEN {0}
    ELSE 1..Len(resps)

CallsMade == threads["t1"].calls + threads["t2"].calls

\* Thread t calls a method.  alone is what the call returns when all of it
\* runs now, with no step of another thread in between.
ThreadCall(t) ==
    /\ threads[t].pc = "idle"
    /\ CallsMade < MaxCalls
    /\ \E c \in ThreadCalls : \E b \in Receivers(c.op) :
          threads' = [threads EXCEPT ![t] =
              [pc |-> "called", op |-> c.op, self |-> b, args |-> c.args,
               alone |-> ResultOf(c.op, Method(CheckOf(c.op, b, c.args),
                                               MakeOf(c.op, b, c.args))),
               result |-> NoResult, calls |-> @.calls + 1, interleaved |-> FALSE]]
    /\ UNCHANGED <<reqs, resps, lists, origin, last>>

\* Thread t runs the checks of its method.
ThreadCheck(t) ==
    /\ threads[t].pc = "called"
    /\ LET c == CheckOf(threads[t].op, threads[t].self, threads[t].args) IN
       threads' = [threads EXCEPT ![t] =
           IF c.exc # None
           THEN [@ EXCEPT !.pc = "done",
                          !.result = [exc |-> c.exc, msg |-> c.msg, call |-> NoCall,
                                      made |-> Unset]]
           ELSE [@ EXCEPT !.pc = "checked"]]
    /\ UNCHANGED <<reqs, resps, lists, origin, last>>

\* Thread t runs the return statement of its method.  interleaved records
\* (history, not program state) that this happened inside another thread's call.
ThreadMake(t) ==
    /\ threads[t].pc = "checked"
    /\ LET r == MakeOf(threads[t].op, threads[t].self, threads[t].args) IN
       /\ reqs' = r.reqs
       /\ resps' = r.resps
       /\ lists' = r.lists
       /\ origin' = [req |-> IF Len(r.reqs) > Len(reqs)
                             THEN Append(origin.req, Origin(threads[t].op, threads[t].self))
                             ELSE origin.req,
                     resp |-> IF Len(r.resps) > Len(resps)
                              THEN Append(origin.resp, Origin(threads[t].op, threads[t].self))
                              ELSE origin.resp]
       /\ threads' = [u \in Threads |->
              IF u = t
              THEN [threads[u] EXCEPT !.pc = "done", !.result = ResultOf(threads[t].op, r)]
              ELSE [threads[u] EXCEPT !.interleaved = @ \/ threads[u].pc \in {"called", "checked"}]]
    /\ UNCHANGED last

\* Thread t has used what its call returned.
ThreadReturn(t) ==
    /\ threads[t].pc = "done"
    /\ threads' = [threads EXCEPT ![t] = ThreadIdle(@.calls)]
    /\ UNCHANGED <<reqs, resps, lists, origin, last>>

NextThreads ==
    \E t \in Threads :
        \/ ThreadCall(t)
        \/ ThreadCheck(t)
        \/ ThreadMake(t)
        \/ ThreadReturn(t)

SpecThreads == InitThreads /\ [][NextThreads]_vars

(***************************************************************************)
(* The error kinds of the specification, as the exceptions of the code.    *)
(***************************************************************************)

TypeMismatch(c) == c.exc = "TypeError"

InvalidAlgorithm(c) ==
    c.exc = "ValueError"
    /\ c.msg = "Algorithm must be SHA1, SHA224, SHA256, SHA384, or SHA512"

SlotOccupied(c) ==
    c.exc = "ValueError"
    /\ c.msg \in {"Only one certificate can be added to a request",
                  "Only one response per OCSPResponse.",
                  "responder_id can only be set once",
                  "certificates may only be set once"}

ConstraintViolation(c) ==
    \/ SlotOccupied(c)
    \/ c.exc = "ValueError"
       /\ c.msg \in {"You must add a certificate before building",
                     "You must add a response before signing",
                     "You must add a responder_id before signing",
                     "certs must not be an empty list",
                     "This extension has already been set."}

FieldConsistencyViolation(c) ==
    c.exc = "ValueError"
    /\ c.msg \in {"revocation_time can only be provided if the certificate is revoked",
                  "revocation_reason can only be provided if the certificate is revoked",
                  "The revocation_time must be on or after 1950 January 1.",
                  "response_status cannot be SUCCESSFUL"}

Succeeded(c) == c.exc = None

(***************************************************************************)
(* Chains of builders.                                                     *)
(***************************************************************************)

RECURSIVE RequestMade(_, _)
\* How many builders on the chain from the constructor to request builder b
\* were made by method op.
RequestMade(b, op) ==
    IF b = 0 THEN 0
    ELSE (IF origin.req[b].via = op THEN 1 ELSE 0) + RequestMade(origin.req[b].parent, op)

RECURSIVE ResponseMade(_, _)
ResponseMade(b, op) ==
    IF b = 0 THEN 0
    ELSE (IF origin.resp[b].via = op THEN 1 ELSE 0) + ResponseMade(origin.resp[b].parent, op)

\* What a caller can observe of a builder: its slots and its extensions.
RequestView(b) == [request |-> reqs[b].request, extensions |-> lists[reqs[b].extensions]]
ResponseView(b) ==
    [response |-> resps[b].response, responder_id |-> resps[b].responder_id,
     certs |-> resps[b].certs, extensions |-> lists[resps[b].extensions]]

(***************************************************************************)
(* C1.  Request builder: build() raises ValueError when the certificate    *)
(* slot is empty and otherwise hands the builder to the backend;           *)
(* add_certificate succeeds only on a builder whose slot is empty, so on   *)
(* any chain of builders at most one add_certificate succeeded, and a      *)
(* filled slot is passed on unchanged.                                     *)
(***************************************************************************)
C1_BuildNeedsTheOneCertificate ==
    /\ last.op = "build" =>
          IF reqs[last.self].request = Unset
          THEN /\ last.exc = "ValueError"
               /\ last.msg = "You must add a certificate before building"
               /\ last.call = NoCall
          ELSE /\ Succeeded(last)
               /\ last.call.fn = "create_ocsp_request"
               /\ last.call.builder = last.self
    /\ (last.op = "add_certificate" /\ Succeeded(last)) =>
          /\ reqs[last.self].request = Unset
          /\ reqs[last.ret].request =
                 Some(<<last.args.cert, last.args.issuer, last.args.algorithm>>)
    /\ \A b \in 1..Len(reqs) :
          /\ RequestMade(b, "add_certificate") <= 1
          /\ (reqs[b].request # Unset) <=> (RequestMade(b, "add_certificate") = 1)
          /\ LET p == origin.req[b].parent IN
                (p # 0 /\ reqs[p].request # Unset) => reqs[b].request = reqs[p].request

\* A valid add_certificate call is refused on a builder that descends from
\* one add_certificate call.
C1_Witness ==
    /\ last.op = "add_certificate"
    /\ last.exc = "ValueError"
    /\ last.msg = "Only one certificate can be added to a request"
    /\ last.args.cert \in Certificates
    /\ last.args.issuer \in Certificates
    /\ last.args.algorithm = "SHA256"
    /\ RequestMade(last.self, "add_certificate") = 1
    /\ origin.req[last.self].via = "request_add_extension"

(***************************************************************************)
(* C2.  As claimed: an add_certificate call that follows another fails     *)
(* with ConstraintViolation whether or not the first one succeeded, also   *)
(* when it is made with valid arguments after a rejected first call.       *)
(***************************************************************************)
C2_SecondCallAlwaysFails ==
    (last.op = "add_certificate" /\ last.follows.op = "add_certificate"
     /\ last.args.cert \in Certificates /\ last.args.issuer \in Certificates
     /\ last.args.algorithm \in {"SHA1", "SHA224", "SHA256", "SHA384", "SHA512"}) =>
        ConstraintViolation(last)

(***************************************************************************)
(* C2, amended.  An add_certificate call that follows another, made on the *)
(* builder the caller then holds, fails with ConstraintViolation when the  *)
(* first call succeeded or was itself refused for the occupied slot; when  *)
(* the first call was rejected for its arguments, the builder is as it     *)
(* was, and the second call succeeds when its arguments are valid.         *)
(***************************************************************************)
C2_SecondCallFailsOnFilledSlot ==
    (last.op = "add_certificate" /\ last.follows.op = "add_certificate") =>
        /\ last.self = Held(last.follows)
        /\ (Succeeded(last.follows) \/ SlotOccupied(last.follows)) =>
               /\ ConstraintViolation(last)
               /\ last.msg = "Only one certificate can be added to a request"
        /\ (~Succeeded(last.follows) /\ ~SlotOccupied(last.follows)
            /\ last.args.cert \in Certificates /\ last.args.issuer \in Certificates
            /\ last.args.algorithm \in {"SHA1", "SHA224", "SHA256", "SHA384", "SHA512"}) =>
               /\ Succeeded(last)
               /\ last.self = last.follows.self
               /\ reqs[last.ret].request =
                      Some(<<last.args.cert, last.args.issuer, last.args.algorithm>>)

\* A valid call succeeds right after a call rejected for its algorithm.
C2_Witness ==
    /\ last.op = "add_certificate"
    /\ last.follows.op = "add_certificate"
    /\ InvalidAlgorithm(last.follows)
    /\ Succeeded(last)
    /\ reqs[last.ret].request # Unset

(***************************************************************************)
(* C3.  Response builder: add_response, responder_id and certificates each *)
(* raise ValueError on a builder whose slot is set, so on any chain each   *)
(* succeeded at most once, and a set slot is passed on unchanged.          *)
(***************************************************************************)
SlotMethods == {"add_response", "responder_id", "certificates"}

Slot(op, builder) ==
    CASE op = "add_response" -> builder.response
      [] op = "responder_id" -> builder.responder_id
      [] op = "certificates" -> builder.certs

SlotMessage(op) ==
    CASE op = "add_response" -> "Only one response per OCSPResponse."
      [] op = "responder_id" -> "responder_id can only be set once"
      [] op = "certificates" -> "certificates may only be set once"

C3_ResponseSlotsSetOnce ==
    /\ last.op \in SlotMethods =>
          /\ Slot(last.op, resps[last.self]) # Unset =>
                (last.exc = "ValueError" /\ last.msg = SlotMessage(last.op))
          /\ Succeeded(last) =>
                /\ Slot(last.op, resps[last.self]) = Unset
                /\ Slot(last.op, resps[last.ret]) # Unset
    /\ \A b \in 1..Len(resps), op \in SlotMethods :
          /\ ResponseMade(b, op) <= 1
          /\ (Slot(op, resps[b]) # Unset) <=> (ResponseMade(b, op) = 1)
          /\ LET p == origin.resp[b].parent IN
                (p # 0 /\ Slot(op, resps[p]) # Unset) =>
                    Slot(op, resps[b]) = Slot(op, resps[p])

\* A valid responder_id call is refused on a builder that descends, through
\* add_response, from a responder_id call.
C3_Witness ==
    /\ last.op = "responder_id"
    /\ SlotOccupied(last)
    /\ last.args.encoding = "NAME"
    /\ last.args.responder_cert \in Certificates
    /\ origin.resp[last.self].via = "add_response"
    /\ ResponseMade(last.self, "responder_id") = 1
    /\ resps[last.self].responder_id = Some(<<"cert1", "HASH">>)

(***************************************************************************)
(* C4.  As claimed: sign reaches the backend only on a chain that followed *)
(* the spine, add_response first and responder_id after it.                *)
(***************************************************************************)
RECURSIVE ResponseFollowedSpine(_)
\* Some builder on b's chain was made by responder_id from a builder that
\* already had its response.
ResponseFollowedSpine(b) ==
    IF b = 0 THEN FALSE
    ELSE \/ /\ origin.resp[b].via = "responder_id"
            /\ ResponseMade(origin.resp[b].parent, "add_response") = 1
         \/ ResponseFollowedSpine(origin.resp[b].parent)

C5_BuildUnsuccessful ==
    /\ last.op = "build_unsuccessful" =>
          /\ last.args.response_status = "SUCCESSFUL" =>
                /\ last.exc = "ValueError"
                /\ last.msg = "response_status cannot be SUCCESSFUL"
                /\ last.call = NoCall
          /\ last.args.response_status \in
                 {"MALFORMED_REQUEST", "INTERNAL_ERROR", "TRY_LATER", "SIG_REQUIRED",
                  "UNAUTHORIZED"} =>
                /\ Succeeded(last)
                /\ last.call = [fn |-> "create_ocsp_response",
                                status |-> last.args.response_status, builder |-> 0,
                                private_key |-> None, algorithm |-> None]
    /\ last.call.status = "SUCCESSFUL" => last.op = "sign"

\* TRY_LATER is built while a builder that is ready to sign exists.
C5_Witness ==
    /\ last.op = "build_unsuccessful"
    /\ last.args.response_status = "TRY_LATER"
    /\ last.call.status = "TRY_LATER"
    /\ \E b \in 1..Len(resps) :
          resps[b].response # Unset /\ resps[b].responder_id # Unset

(***************************************************************************)
(* C6.  A call that raises leaves every builder as it was: the slots and   *)
(* the extension lists of all builders are what they were before the call, *)
(* so whatever could be called on them before can be called the same way.  *)
(***************************************************************************)
C6_FailedCallChangesNothing ==
    [][(last'.op # "None" /\ ~Succeeded(last')) =>
           (reqs' = reqs /\ resps' = resps /\ lists' = lists)]_vars

\* certificates([]) has raised on a builder that has its response, and the
\* certificate list of that builder is still unset.
C6_Witness ==
    /\ last.op = "certificates"
    /\ last.args.certs = <<>>
    /\ last.msg = "certs must not be an empty list"
    /\ resps[last.self].certs = Unset
    /\ resps[last.self].response # Unset

(***************************************************************************)
(* C7.  Builders are persistent: a step never changes the slots or the     *)
(* extensions of a builder that exists, and every successful add_* call,   *)
(* responder_id and certificates returns a builder that did not exist      *)
(* before; so chains branched from one builder do not affect each other.   *)
(***************************************************************************)
MutatingMethods ==
    {"add_certificate", "request_add_extension", "add_response", "responder_id",
     "certificates", "response_add_extension"}

C7_BuildersArePersistent ==
    [][/\ Len(reqs') >= Len(reqs)
       /\ Len(resps') >= Len(resps)
       /\ \A b \in 1..Len(reqs) : RequestView(b)' = RequestView(b)
       /\ \A b \in 1..Len(resps) : ResponseView(b)' = ResponseView(b)
       /\ (last'.op \in MutatingMethods /\ Succeeded(last')) =>
              IF last'.op \in {"add_certificate", "request_add_extension"}
              THEN last'.ret = Len(reqs) + 1 /\ Len(reqs') = Len(reqs) + 1
              ELSE last'.ret = Len(resps) + 1 /\ Len(resps') = Len(resps) + 1]_vars

\* Two builders branched from the first one by add_extension with the same
\* oid, while the first one still has no extension.
C7_Witness ==
    /\ Len(reqs) = 3
    /\ origin.req[2] = Origin("request_add_extension", 1)
    /\ origin.req[3] = Origin("request_add_extension", 1)
    /\ RequestView(1).extensions = <<>>
    /\ RequestView(2).extensions = <<Extension("OCSP_NONCE", TRUE, "nonceA")>>
    /\ RequestView(3).extensions = <<Extension("OCSP_NONCE", FALSE, "nonceB")>>

(***************************************************************************)
(* C9.  As claimed: in every single response a builder holds,              *)
(* revocation_time and revocation_reason are populated if and only if      *)
(* cert_status is REVOKED.                                                 *)
(***************************************************************************)
C9_RevocationFieldsIffRevoked ==
    \A b \in 1..Len(resps) :
        resps[b].response # Unset =>
            LET r == resps[b].response[1] IN
            /\ (r.revocation_time # NoneValue) <=> (r.cert_status = "REVOKED")
            /\ (r.revocation_reason # None) <=> (r.cert_status = "REVOKED")

(***************************************************************************)
(* C9, amended.  In every single response a builder holds, revocation_time *)
(* is populated if and only if cert_status is REVOKED, and                 *)
(* revocation_reason is populated only if cert_status is REVOKED (a        *)
(* revoked response may have no reason).  add_response fails, and makes no *)
(* builder, when a revocation_time or a revocation_reason is given with a  *)
(* status other than REVOKED or when REVOKED comes without a               *)
(* revocation_time; the reason kept is the one given, never a default.     *)
(***************************************************************************)
C9_RevocationTimeIffRevoked ==
    /\ \A b \in 1..Len(resps) :
          resps[b].response # Unset =>
              LET r == resps[b].response[1] IN
              /\ IsDatetime(r.revocation_time) <=> (r.cert_status = "REVOKED")
              /\ (r.cert_status # "REVOKED") => r.revocation_time = NoneValue
              /\ (r.revocation_reason # None) => (r.cert_status = "REVOKED")
    /\ last.op = "add_response" =>
          /\ (\/ /\ last.args.cert_status # "REVOKED"
                 /\ \/ last.args.revocation_time # NoneValue
                    \/ last.args.revocation_reason # None
              \/ /\ last.args.cert_status = "REVOKED"
                 /\ last.args.revocation_time = NoneValue) =>
                (~Succeeded(last) /\ last.ret = 0)
          /\ Succeeded(last) =>
                /\ resps[last.ret].response[1].cert_status = last.args.cert_status
                /\ resps[last.ret].response[1].revocation_reason =
                       last.args.revocation_reason

\* A revoked response without a reason has been accepted.
C9_Witness ==
    /\ last.op = "add_response"
    /\ Succeeded(last)
    /\ last.args.cert_status = "REVOKED"
    /\ last.args.revocation_reason = None
    /\ resps[last.ret].response[1].cert_status = "REVOKED"
    /\ resps[last.ret].response[1].revocation_time = Datetime(1950, FALSE, 0)
    /\ resps[last.ret].response[1].revocation_reason = None

(***************************************************************************)
(* C10.  As claimed: add_response on an empty slot with otherwise valid    *)
(* arguments fails with FieldConsistencyViolation (a ValueError) both for  *)
(* REVOKED without a revocation_time and for GOOD or UNKNOWN with one.     *)
(***************************************************************************)
OtherwiseValid(a) ==
    /\ a.cert \in Certificates
    /\ a.issuer \in Certificates
    /\ a.algorithm \in {"SHA1", "SHA224", "SHA256", "SHA384", "SHA512"}
    /\ IsDatetime(a.this_update)
    /\ a.next_update = NoneValue \/ IsDatetime(a.next_update)

C10_MismatchIsFieldConsistencyViolation ==
    (last.op = "add_response" /\ resps[last.self].response = Unset
     /\ OtherwiseValid(last.args)) =>
        /\ (last.args.cert_status = "REVOKED" /\ last.args.revocation_time = NoneValue) =>
               FieldConsistencyViolation(last)
        /\ (last.args.cert_status \in {"GOOD", "UNKNOWN"}
            /\ IsDatetime(last.args.revocation_time)) =>
               FieldConsistencyViolation(last)

(***************************************************************************)
(* C10, amended.  add_response on an empty slot with otherwise valid       *)
(* arguments: with REVOKED and no revocation_time it fails with            *)
(* TypeMismatch (TypeError, "revocation_time must be a datetime object"),  *)
(* not with FieldConsistencyViolation; with GOOD or UNKNOWN and a          *)
(* revocation_time it fails with FieldConsistencyViolation (ValueError).   *)
(***************************************************************************)
C10_MissingTimeIsTypeMismatch ==
    (last.op = "add_response" /\ resps[last.self].response = Unset
     /\ OtherwiseValid(last.args)) =>
        /\ (last.args.cert_status = "REVOKED" /\ last.args.revocation_time = NoneValue) =>
               /\ TypeMismatch(last)
               /\ last.msg = "revocation_time must be a datetime object"
               /\ ~FieldConsistencyViolation(last)
        /\ (last.args.cert_status \in {"GOOD", "UNKNOWN"}
            /\ IsDatetime(last.args.revocation_time)) =>
               /\ FieldConsistencyViolation(last)
               /\ last.msg =
                      "revocation_time can only be provided if the certificate is revoked"

\* REVOKED with a reason and without a revocation_time has raised TypeError.
C10_Witness ==
    /\ last.op = "add_response"
    /\ OtherwiseValid(last.args)
    /\ last.args.cert_status = "REVOKED"
    /\ last.args.revocation_time = NoneValue
    /\ last.args.revocation_reason = "key_compromise"
    /\ last.exc = "TypeError"
    /\ resps = <<OCSPResponseBuilder(Unset, Unset, Unset, ResponseDefaultExtensions)>>

(***************************************************************************)
(* C8.  Threads calling methods on shared builders, their steps            *)
(* interleaved in any way: every call returns what it returns when it runs *)
(* alone on that builder, and the slots and extensions of the shared       *)
(* builders are never changed.                                             *)
(***************************************************************************)
C8_ConcurrentCallsAsIfAlone ==
    /\ \A t \in Threads : threads[t].pc = "done" => threads[t].result = threads[t].alone
    /\ \A b \in 1..Len(SharedRequestBuilders) :
          RequestView(b) = [request |-> SharedRequestBuilders[b].request,
                            extensions |-> <<>>]
    /\ \A b \in 1..Len(SharedResponseBuilders) :
          ResponseView(b) = [response |-> SharedResponseBuilders[b].response,
                             responder_id |-> SharedResponseBuilders[b].responder_id,
                             certs |-> SharedResponseBuilders[b].certs,
                             extensions |-> <<>>]

\* Both threads called add_extension on the same shared response builder,
\* the return statement of one ran inside the call of the other, and both
\* have their builder with one extension.
C8_Witness ==
    /\ threads["t1"].pc = "done"
    /\ threads["t2"].pc = "done"
    /\ threads["t2"].interleaved
    /\ threads["t1"].op = "response_add_extension"
    /\ threads["t2"].op = "response_add_extension"
    /\ threads["t1"].self = 3
    /\ threads["t2"].self = 3
    /\ Len(resps) = 5
    /\ Len(threads["t1"].result.made[1].extensions) = 1
    /\ Len(threads["t2"].result.made[1].extensions) = 1
    /\ ResponseView(3).extensions = <<>>

(***************************************************************************)
(* C11.  As claimed: every timestamp of a single response a builder holds  *)
(* (this_update, and next_update and revocation_time when they are given)  *)
(* is normalized to UTC and is on or after the floor, and add_response     *)
(* fails when one of the timestamps it is given is before the floor.       *)
(***************************************************************************)
Timestamps(r) == {r.this_update, r.next_update, r.revocation_time}

C11_TimestampsNormalizedAndFloored ==
    /\ \A b \in 1..Len(resps) :
          resps[b].response # Unset =>
              \A ts \in Timestamps(resps[b].response[1]) :
                  IsDatetime(ts) => (~ts.aware /\ ts.t >= _EARLIEST_UTC_TIME)
    /\ (last.op = "add_response"
        /\ \E ts \in Timestamps(last.args) :
              IsDatetime(ts) /\ _convert_to_naive_utc_time(ts).t < _EARLIEST_UTC_TIME) =>
          ~Succeeded(last)

(***************************************************************************)
(* C12.  In both builders add_extension raises ValueError when an          *)
(* extension of the same oid is in self's list, whatever its criticality   *)
(* and value, and otherwise returns a builder whose list is self's list    *)
(* with the new extension appended.  So every builder's list has pairwise  *)
(* distinct oids and is its parent's list, with one extension added at the *)
(* end when add_extension made it; a constructor's builder has none.       *)
(***************************************************************************)
DistinctOids(extensions) ==
    \A i, j \in 1..Len(extensions) : i # j => extensions[i].oid # extensions[j].oid

\* The list of a builder (own) made by method via from a builder with list
\* parent_list; is_root when a constructor made it.
ExtendsParent(own, parent_list, is_root, by_add_extension) ==
    IF is_root THEN own = <<>>
    ELSE IF by_add_extension
    THEN Len(own) = Len(parent_list) + 1 /\ SubSeq(own, 1, Len(parent_list)) = parent_list
    ELSE own = parent_list

AddExtensionOutcome(c, old, made) ==
    c.args.extval \in ExtensionTypes =>
        LET extension == Extension(OidOf(c.args.extval), c.args.critical, c.args.extval) IN
        IF \E i \in 1..Len(old) : old[i].oid = extension.oid
        THEN /\ c.exc = "ValueError"
             /\ c.msg = "This extension has already been set."
             /\ c.ret = 0
        ELSE /\ Succeeded(c)
             /\ c.ret # 0
             /\ made = Append(old, extension)

C12_ExtensionsDistinctInOrder ==
    /\ last.op = "request_add_extension" =>
          AddExtensionOutcome(last, RequestView(last.self).extensions,
                              IF last.ret = 0 THEN <<>> ELSE RequestView(last.ret).extensions)
    /\ last.op = "response_add_extension" =>
          AddExtensionOutcome(last, ResponseView(last.self).extensions,
                              IF last.ret = 0 THEN <<>> ELSE ResponseView(last.ret).extensions)
    /\ \A b \in 1..Len(reqs) :
          /\ DistinctOids(RequestView(b).extensions)
          /\ LET p == origin.req[b].parent IN
             ExtendsParent(RequestView(b).extensions,
                           IF p = 0 THEN <<>> ELSE RequestView(p).extensions,
                           p = 0, origin.req[b].via = "request_add_extension")
    /\ \A b \in 1..Len(resps) :
          /\ DistinctOids(ResponseView(b).extensions)
          /\ LET p == origin.resp[b].parent IN
             ExtendsParent(ResponseView(b).extensions,
                           IF p = 0 THEN <<>> ELSE ResponseView(p).extensions,
                           p = 0, origin.resp[b].via = "response_add_extension")

\* A second nonce, of other criticality and value, is refused on a builder
\* that holds a nonce and then a CRL number, in that order.
C12_Witness ==
    /\ last.op = "request_add_extension"
    /\ last.args = [extval |-> "nonceB", critical |-> FALSE]
    /\ last.exc = "ValueError"
    /\ last.msg = "This extension has already been set."
    /\ RequestView(last.self).extensions =
           <<Extension("OCSP_NONCE", TRUE, "nonceA"), Extension("CRL_NUMBER", FALSE, "crlNumber")>>

(***************************************************************************)
(* C13.  certificates with an empty list raises ValueError ("certs must    *)
(* not be an empty list") and leaves the slot of the builder unset, so a   *)
(* certificates call with a list of certificates made on that builder      *)
(* right after it succeeds; on a builder whose slot is unset, a call with  *)
(* a non-empty list of certificates succeeds and stores the elements in    *)
(* the order given.  Every builder's certificate list is unset or          *)
(* non-empty.                                                              *)
(***************************************************************************)
ValidCertificates(certs) ==
    Len(certs) > 0 /\ \A i \in 1..Len(certs) : certs[i] \in Certificates

C13_CertificatesUnsetOrNonEmpty ==
    /\ last.op = "certificates" =>
          /\ last.args.certs = <<>> =>
                /\ last.exc = "ValueError"
                /\ last.ret = 0
                /\ IF resps[last.self].certs = Unset
                   THEN last.msg = "certs must not be an empty list"
                   ELSE last.msg = "certificates may only be set once"
          /\ (ValidCertificates(last.args.certs) /\ resps[last.self].certs = Unset) =>
                Succeeded(last)
          /\ Succeeded(last) =>
                /\ ValidCertificates(last.args.certs)
                /\ resps[last.self].certs = Unset
                /\ resps[last.ret].certs = Some(last.args.certs)
          /\ (last.follows.op = "certificates"
              /\ last.follows.msg = "certs must not be an empty list"
              /\ ValidCertificates(last.args.certs)) =>
                /\ last.self = last.follows.self
                /\ Succeeded(last)
                /\ resps[last.ret].certs = Some(last.args.certs)
    /\ \A b \in 1..Len(resps) :
          resps[b].certs = Unset \/ Len(resps[b].certs[1]) > 0

\* certificates([cert2, cert1]) succeeds on the builder certificates([]) has
\* just failed on, and the new builder has cert2 before cert1.
C13_Witness ==
    /\ last.op = "certificates"
    /\ last.follows.op = "certificates"
    /\ last.follows.msg = "certs must not be an empty list"
    /\ last.args.certs = <<"cert2", "cert1">>
    /\ Succeeded(last)
    /\ resps[last.self].certs = Unset
    /\ resps[last.ret].certs = Some(<<"cert2", "cert1">>)

(***************************************************************************)
(* C14.  As claimed: _verify_algorithm accepts exactly SHA1, SHA224,       *)
(* SHA256, SHA384 and SHA512, every oid of _OIDS_TO_HASH maps to one of    *)
(* them, and add_certificate, add_response and sign all succeed only with  *)
(* one of the five.                                                        *)
(***************************************************************************)
PermittedDigests == {"SHA1", "SHA224", "SHA256", "SHA384", "SHA512"}

RegistryClosed ==
    /\ \A algorithm \in AllAlgorithmArgs :
          _verify_algorithm(algorithm) <=> (algorithm \notin PermittedDigests)
    /\ \A oid \in DOMAIN _OIDS_TO_HASH : ~_verify_algorithm(_OIDS_TO_HASH[oid])
    /\ {_OIDS_TO_HASH[oid] : oid \in DOMAIN _OIDS_TO_HASH} = PermittedDigests

C14_ValidateGuardsEveryEntryPoint ==
    /\ RegistryClosed
    /\ (last.op \in {"add_certificate", "add_response", "sign"} /\ Succeeded(last)) =>
          last.args.algorithm \in PermittedDigests

(***************************************************************************)
(* C14, amended.  _verify_algorithm accepts exactly the five, and every    *)
(* oid of _OIDS_TO_HASH maps to one of them.  It guards add_certificate    *)
(* and add_response: they succeed only with one of the five, raise         *)
(* InvalidAlgorithm for any other value once the tests made before it have *)
(* passed, and never raise it for one of the five, so the algorithm in     *)
(* every certificate slot and single response is one of the five.  sign    *)
(* does not test its signing algorithm: it never raises InvalidAlgorithm   *)
(* and hands the algorithm to the backend as given.                        *)
(***************************************************************************)
C14_ValidateGuardsCertIdAlgorithms ==
    /\ RegistryClosed
    /\ last.op \in {"add_certificate", "add_response"} =>
          /\ Succeeded(last) => last.args.algorithm \in PermittedDigests
          /\ last.args.algorithm \in PermittedDigests => ~InvalidAlgorithm(last)
    /\ (last.op = "add_certificate" /\ last.args.algorithm \notin PermittedDigests
        /\ reqs[last.self].request = Unset) => InvalidAlgorithm(last)
    /\ (last.op = "add_response" /\ last.args.algorithm \notin PermittedDigests
        /\ resps[last.self].response = Unset
        /\ last.args.cert \in Certificates /\ last.args.issuer \in Certificates) =>
          InvalidAlgorithm(last)
    /\ \A b \in 1..Len(reqs) :
          reqs[b].request # Unset => reqs[b].request[1][3] \in PermittedDigests
    /\ \A b \in 1..Len(resps) :
          resps[b].response # Unset => resps[b].response[1].algorithm \in PermittedDigests
    /\ last.op = "sign" =>
          /\ ~InvalidAlgorithm(last)
          /\ (resps[last.self].response # Unset /\ resps[last.self].responder_id # Unset) =>
                (Succeeded(last) /\ last.call.algorithm = last.args.algorithm)

\* sign has handed MD5 to the backend, for a response made with SHA512.
C14_Witness ==
    /\ last.op = "sign"
    /\ Succeeded(last)
    /\ last.args.algorithm = "MD5"
    /\ last.call.fn = "create_ocsp_response"
    /\ last.call.algorithm = "MD5"
    /\ resps[last.self].response[1].algorithm = "SHA512"

(***************************************************************************)
(* C15.  As claimed: every invalid argument is rejected by the call that   *)
(* receives it, so the builder that build or sign hands to the backend is  *)
(* valid: the required slots are filled, the certificates are              *)
(* certificates, the hash algorithm is one of the five, the revocation     *)
(* fields agree with cert_status, the timestamps are on or after the       *)
(* floor, the certificate list is unset or non-empty and the extension     *)
(* oids are pairwise distinct.                                             *)
(***************************************************************************)
ValidRequestBuilder(b) ==
    /\ reqs[b].request # Unset
    /\ reqs[b].request[1][1] \in Certificates
    /\ reqs[b].request[1][2] \in Certificates
    /\ reqs[b].request[1][3] \in PermittedDigests
    /\ DistinctOids(RequestView(b).extensions)

ValidSingleResponse(r) ==
    /\ r.cert \in Certificates
    /\ r.issuer \in Certificates
    /\ r.algorithm \in PermittedDigests
    /\ r.cert_status \in OCSPCertStatus
    /\ IsDatetime(r.revocation_time) <=> (r.cert_status = "REVOKED")
    /\ (r.revocation_reason # None) => (r.cert_status = "REVOKED")
    /\ IsDatetime(r.this_update)
    /\ \A ts \in Timestamps(r) :
          \/ ts = NoneValue
          \/ IsDatetime(ts) /\ _convert_to_naive_utc_time(ts).t >= _EARLIEST_UTC_TIME

ValidResponseBuilder(b) ==
    /\ resps[b].response # Unset
    /\ ValidSingleResponse(resps[b].response[1])
    /\ resps[b].responder_id # Unset
    /\ resps[b].responder_id[1][1] \in Certificates
    /\ resps[b].responder_id[1][2] \in OCSPResponderEncoding
    /\ resps[b].certs = Unset \/ ValidCertificates(resps[b].certs[1])
    /\ DistinctOids(ResponseView(b).extensions)

C15_BackendGetsValidBuilder ==
    /\ last.call.fn = "create_ocsp_request" => ValidRequestBuilder(last.call.builder)
    /\ (last.call.fn = "create_ocsp_response" /\ last.op = "sign") =>
          ValidResponseBuilder(last.call.builder)

(***************************************************************************)
(* C16.  A successful call changes only its own slot: in the builder it    *)
(* returns, every other slot and the extensions are those of the builder   *)
(* it was called on.  add_response keeps responder id, certificate list    *)
(* and extensions; responder_id keeps response, certificate list and       *)
(* extensions; certificates keeps response, responder id and extensions;   *)
(* add_extension keeps response, responder id and certificate list; in the *)
(* request builder add_certificate keeps the extensions and add_extension  *)
(* the certificate slot.                                                   *)
(***************************************************************************)
C16_OnlyOwnSlotChanges ==
    (Succeeded(last) /\ last.ret # 0) =>
        LET new == IF last.op \in RequestMethods THEN RequestView(last.ret)
                   ELSE ResponseView(last.ret)
            old == IF last.op \in RequestMethods THEN RequestView(last.self)
                   ELSE ResponseView(last.self)
        IN
        /\ last.op = "add_certificate" => new.extensions = old.extensions
        /\ last.op = "request_add_extension" => new.request = old.request
        /\ last.op = "add_response" =>
              new = [old EXCEPT !.response = new.response]
        /\ last.op = "responder_id" =>
              new = [old EXCEPT !.responder_id = new.responder_id]
        /\ last.op = "certificates" =>
              new = [old EXCEPT !.certs = new.certs]
        /\ last.op = "response_add_extension" =>
              new = [old EXCEPT !.extensions = new.extensions]

\* add_response has succeeded on a builder that had a responder id, and
\* the new builder has it.
C16_Witness ==
    /\ last.op = "add_response"
    /\ Succeeded(last)
    /\ resps[last.self].response = Unset
    /\ resps[last.ret].response # Unset
    /\ resps[last.self].responder_id = Some(<<"cert1", "NAME">>)
    /\ resps[last.ret].responder_id = Some(<<"cert1", "NAME">>)

(***************************************************************************)
(* C17.  add_certificate, add_response, responder_id and certificates test *)
(* the slot before they look at their arguments: on a builder whose slot   *)
(* is set they raise the ValueError of the occupied slot whatever the      *)
(* arguments are.  add_certificate on an empty slot reports an algorithm   *)
(* that is not allowed before an argument that is not a certificate.       *)
(***************************************************************************)
C17_SlotTestComesFirst ==
    /\ (last.op = "add_certificate" /\ reqs[last.self].request # Unset) =>
          /\ last.exc = "ValueError"
          /\ last.msg = "Only one certificate can be added to a request"
    /\ (last.op \in SlotMethods /\ Slot(last.op, resps[last.self]) # Unset) =>
          /\ last.exc = "ValueError"
          /\ last.msg = SlotMessage(last.op)
    /\ (last.op = "add_certificate" /\ reqs[last.self].request = Unset) =>
          IF last.args.algorithm \notin PermittedDigests
          THEN InvalidAlgorithm(last)
          ELSE IF last.args.cert \notin Certificates \/ last.args.issuer \notin Certificates
          THEN TypeMismatch(last)
          ELSE Succeeded(last)

\* responder_id with an argument that is no certificate and one that is no
\* encoding has raised the ValueError of the occupied slot.
C17_Witness ==
    /\ last.op = "responder_id"
    /\ last.args.responder_cert = NotACertificate
    /\ last.args.encoding = "notAnEncoding"
    /\ resps[last.self].responder_id # Unset
    /\ last.exc = "ValueError"
    /\ last.msg = "responder_id can only be set once"

(***************************************************************************)
(* C18.  Each constructor has one default list object, which every builder *)
(* made without arguments refers to, and the builders made by              *)
(* add_certificate, add_response, responder_id and certificates refer to   *)
(* the list object of their parent.  No list is changed in place: the      *)
(* default lists stay empty, so a new builder has no extension, and every  *)
(* builder has exactly as many extensions as add_extension calls made the  *)
(* builders of its own chain, whatever was called on other builders.       *)
(***************************************************************************)
C18_SharedListsNeverChange ==
    /\ lists[RequestDefaultExtensions] = <<>>
    /\ lists[ResponseDefaultExtensions] = <<>>
    /\ \A b \in 1..Len(reqs) :
          LET p == origin.req[b].parent IN
          /\ p = 0 => reqs[b].extensions = RequestDefaultExtensions
          /\ origin.req[b].via = "add_certificate" =>
                reqs[b].extensions = reqs[p].extensions
          /\ Len(RequestView(b).extensions) = RequestMade(b, "request_add_extension")
    /\ \A b \in 1..Len(resps) :
          LET p == origin.resp[b].parent IN
          /\ p = 0 => resps[b].extensions = ResponseDefaultExtensions
          /\ origin.resp[b].via \in SlotMethods =>
                resps[b].extensions = resps[p].extensions
          /\ Len(ResponseView(b).extensions) = ResponseMade(b, "response_add_extension")

\* A builder constructed after add_extension was called on an earlier new
\* builder refers to the same list as that builder and has no extension.
C18_Witness ==
    /\ Len(reqs) = 3
    /\ origin.req[1] = Origin("OCSPRequestBuilder", 0)
    /\ origin.req[2] = Origin("request_add_extension", 1)
    /\ origin.req[3] = Origin("OCSPRequestBuilder", 0)
    /\ reqs[3].extensions = reqs[1].extensions
    /\ Len(RequestView(2).extensions) = 1
    /\ RequestView(3).extensions = <<>>

(***************************************************************************)
(* C19.  build and sign change no builder and no list, whether they raise  *)
(* or call the backend.  A call made on the builder right after build or   *)
(* sign finds it as it was: build or sign again ends as the first call did *)
(* and, when that reached the backend, reaches it again with the same      *)
(* builder; add_extension with an extension type whose oid is not in the   *)
(* list, and certificates with a list of certificates on an unset slot,    *)
(* succeed.                                                                *)
(***************************************************************************)
C19_TerminalsDoNotConsume ==
    [][/\ last'.op \in {"build", "sign"} =>
              (reqs' = reqs /\ resps' = resps /\ lists' = lists)
       /\ last'.follows.op \in {"build", "sign"} =>
              /\ last'.self = last'.follows.self
              /\ last'.op = last'.follows.op =>
                    /\ last'.exc = last'.follows.exc
                    /\ last'.msg = last'.follows.msg
                    /\ Succeeded(last'.follows) =>
                          (last'.call.fn # "None" /\ last'.call.builder = last'.self)
              /\ (last'.op = "request_add_extension" /\ last'.args.extval \in ExtensionTypes
                  /\ \A i \in 1..Len(RequestView(last'.self).extensions) :
                        RequestView(last'.self).extensions[i].oid # OidOf(last'.args.extval)) =>
                    Succeeded(last')
              /\ (last'.op = "response_add_extension" /\ last'.args.extval \in ExtensionTypes
                  /\ \A i \in 1..Len(ResponseView(last'.self).extensions) :
                        ResponseView(last'.self).extensions[i].oid # OidOf(last'.args.extval)) =>
                    Succeeded(last')
              /\ (last'.op = "certificates" /\ ValidCertificates(last'.args.certs)
                  /\ resps[last'.self].certs = Unset) =>
                    Succeeded(last')]_vars

\* sign has reached the backend a second time with the same builder.
C19_Witness ==
    /\ last.op = "sign"
    /\ last.follows.op = "sign"
    /\ Succeeded(last.follows)
    /\ Succeeded(last)
    /\ last.call.fn = "create_ocsp_response"
    /\ last.call.builder = last.follows.self
    /\ resps[last.self].response # Unset
    /\ resps[last.self].responder_id # Unset

====
